---- MODULE Spec2Model ----
(***************************************************************************)
(* A model of main.py, the Copilot Demo API: a FastAPI module with the     *)
(* handlers list_users_graph, health_check, preview_logs, delete_logs,     *)
(* summarize_log, get_events and ai_plugin_manifest, and the module's own  *)
(* loading (the registration of the routes on the object named app).       *)
(*                                                                         *)
(* Text is a sequence of one-character strings, so that str.lower(),       *)
(* re.search(..., re.IGNORECASE), the `in` test, str.strip() and the       *)
(* iteration of a file by lines are computed, not assumed.                 *)
(***************************************************************************)
EXTENDS Integers, Sequences, FiniteSets, TLC

VARIABLES
    kind,       \* filesystem: top-level path -> "missing" | "dir" | "file"
    entries,    \* filesystem: the directory's entries, name -> entry record
    now,        \* time.time(), in seconds
    content,    \* the text of the regular file, a sequence of characters
    resp,       \* the last call and what it returned (or raised)
    pc,         \* module loading: the next top-level statement of main.py
    app,        \* the object bound to the module-level name app (0: unbound)
    routes,     \* per FastAPI object, the set of registered routes
    env,        \* os.environ: TENANT_ID, CLIENT_ID, CLIENT_SECRET
    upc,        \* GET /users: position inside list_users_graph
    sent,       \* GET /users: requests sent so far, per remote party
    token,      \* GET /users: the local variable token
    host,       \* platform.system() and the state of the host's logs
    procs       \* concurrent requests: each one's locals and position

vars == <<kind, entries, now, content, resp, pc, app, routes, env, upc, sent,
          token, host, procs>>

fsVars    == <<kind, entries, now, content>>
loadVars  == <<pc, app, routes>>
usersVars == <<env, upc, sent, token>>

-----------------------------------------------------------------------------
(* Text                                                                    *)

UpperCase == <<"A","B","C","D","E","F","G","H","I","J","K","L","M",
               "N","O","P","Q","R","S","T","U","V","W","X","Y","Z">>
LowerCase == <<"a","b","c","d","e","f","g","h","i","j","k","l","m",
               "n","o","p","q","r","s","t","u","v","w","x","y","z">>

\* str.lower() on one character
LowerChar(c) ==
    IF \E i \in 1..Len(UpperCase) : UpperCase[i] = c
    THEN LowerCase[CHOOSE i \in 1..Len(UpperCase) : UpperCase[i] = c]
    ELSE c

\* str.lower()
Lower(s) == [i \in 1..Len(s) |-> LowerChar(s[i])]

\* pat in s
Contains(s, pat) ==
    \E o \in 0..(Len(s) - Len(pat)) :
        \A j \in 1..Len(pat) : s[o + j] = pat[j]

\* re.search(pat, s, re.IGNORECASE) for a pattern of plain letters
SearchIgnoreCase(pat, s) ==
    \E o \in 0..(Len(s) - Len(pat)) :
        \A j \in 1..Len(pat) : LowerChar(s[o + j]) = LowerChar(pat[j])

Whitespace == {" ", "\n", "\t", "\r"}

\* str.strip()
Strip(s) ==
    LET keep == {i \in 1..Len(s) : s[i] \notin Whitespace}
    IN  IF keep = {} THEN <<>>
        ELSE LET lo == CHOOSE i \in keep : \A j \in keep : i <= j
                 hi == CHOOSE i \in keep : \A j \in keep : j <= i
             IN  SubSeq(s, lo, hi)

\* the lines a text file yields when iterated (each keeps its "\n")
RECURSIVE SplitFrom(_, _, _)
SplitFrom(s, start, i) ==
    IF i > Len(s) THEN (IF start > Len(s) THEN <<>> ELSE <<SubSeq(s, start, Len(s))>>)
    ELSE IF s[i] = "\n" THEN <<SubSeq(s, start, i)>> \o SplitFrom(s, i + 1, i + 1)
    ELSE SplitFrom(s, start, i + 1)

FileLines(s) == SplitFrom(s, 1, 1)

kw_yes   == <<"y","e","s">>
kw_error == <<"e","r","r","o","r">>
kw_warn  == <<"w","a","r","n">>
kw_info  == <<"i","n","f","o">>

-----------------------------------------------------------------------------
(* Log retention: preview_logs and delete_logs                             *)

MaxDays == 1        \* days ranges over 0..MaxDays
MaxClock == 1       \* the clock reads day 1 .. day MaxClock, on the second or one past
SecondsPerDay == 86400
BytesPerMB == 1048576

Paths == {"logs", "app.log"}
Names == {"a.log", "b.log", "archive"}
Confirms == {kw_yes, <<"Y","E","S">>, <<"Y","e","s">>, <<"n","o">>}

Absent == [type |-> "absent", mtime |-> 0, size |-> 0, removable |-> FALSE]
SubDir == [type |-> "dir", mtime |-> 0, size |-> 0, removable |-> FALSE]
MTimes == {0, 1}
Sizes == {131072, 393216, 1048576}
Files == [type : {"file"}, mtime : MTimes, size : Sizes, removable : BOOLEAN]
Clock == {d * SecondsPerDay + e : d \in 1..MaxClock, e \in {0, 1}}

\* what each name of the directory may be: a log file, or the subdirectory
EntryChoices(n) ==
    CASE n = "archive" -> {Absent, SubDir}
      [] n = "a.log"   -> {Absent} \cup {f \in Files : f.size = 131072}
      [] OTHER         -> {Absent} \cup {f \in Files : f.size # 131072}

exists_unchecked(path) == TRUE

\* os.path.exists
exists(path) == kind[path] # "missing"

\* os.listdir in one of the orders the OS may give
Orders(ents) ==
    LET present == {n \in Names : ents[n].type # "absent"}
    IN  {o \in [1..Cardinality(present) -> present] :
            \A i, j \in DOMAIN o : i # j => o[i] # o[j]}

\* os.path.isfile
isfile(ents, f) == ents[f].type = "file"

\* round(total / (1024*1024), 2), in hundredths of a MB (ties to even)
Round2(total) ==
    LET q == (total * 100) \div BytesPerMB
        r == (total * 100) % BytesPerMB
    IN  IF 2 * r > BytesPerMB THEN q + 1
        ELSE IF 2 * r < BytesPerMB THEN q
        ELSE IF q % 2 = 0 THEN q ELSE q + 1

\* the age test of preview_logs
PreviewOld(t, mtime, days) == t - mtime > days * SecondsPerDay

\* the loop of preview_logs over the listing
RECURSIVE PreviewScan(_, _, _, _, _, _)
PreviewScan(ents, t, days, order, i, acc) ==
    IF i > Len(order) THEN acc
    ELSE LET f == order[i]
         IN  IF isfile(ents, f) /\ PreviewOld(t, ents[f].mtime, days)
             THEN PreviewScan(ents, t, days, order, i + 1,
                     [files_to_delete |-> Append(acc.files_to_delete,
                                            [file |-> f, size_bytes |-> ents[f].size]),
                      total_space |-> acc.total_space + ents[f].size])
             ELSE PreviewScan(ents, t, days, order, i + 1, acc)

preview_logs(folder, days, order) ==
    IF ~exists(folder) THEN [kind |-> "error", error |-> "Folder not found"]
    ELSE IF kind[folder] # "dir"
    THEN [kind |-> "raised", exc |-> "NotADirectoryError"]
    ELSE LET s == PreviewScan(entries, now, days, order, 1,
                     [files_to_delete |-> <<>>, total_space |-> 0])
         IN  [kind |-> "preview",
              files_to_delete |-> s.files_to_delete,
              total_space_to_free_mb |-> Round2(s.total_space),
              delete_url |-> [folder |-> folder, days |-> days, confirm |-> kw_yes]]

\* the guard of delete_logs
NotConfirmed(confirm) == Lower(confirm) # kw_yes

DeleteOld_inclusive(t, mtime, days) == t - mtime >= days * SecondsPerDay

\* the age test of delete_logs
DeleteOld(t, mtime, days) == t - mtime > days * SecondsPerDay

\* os.remove inside its try: the entry after the call and whether it raised
Remove(ents, f) ==
    IF ents[f].removable
    THEN [ents |-> [ents EXCEPT ![f] = Absent], raised |-> FALSE]
    ELSE [ents |-> ents, raised |-> TRUE]

\* the loop with the except clause leaving it (a break in place of the append)
RECURSIVE DeleteScan_stop(_, _, _, _, _, _)
DeleteScan_stop(ents, t, days, order, i, acc) ==
    IF i > Len(order) THEN [acc EXCEPT !.ents = ents]
    ELSE LET f == order[i]
         IN  IF isfile(ents, f) /\ DeleteOld(t, ents[f].mtime, days)
             THEN LET size == ents[f].size
                      rm == Remove(ents, f)
                  IN  IF ~rm.raised
                      THEN DeleteScan_stop(rm.ents, t, days, order, i + 1,
                              [acc EXCEPT
                                 !.deleted_files = Append(@, [tag |-> "name", file |-> f]),
                                 !.total_space = @ + size])
                      ELSE [acc EXCEPT
                              !.ents = rm.ents,
                              !.deleted_files = Append(@,
                                  [tag |-> "error", file |-> f,
                                   error |-> "PermissionError"])]
             ELSE DeleteScan_stop(ents, t, days, order, i + 1, acc)

\* the loop of delete_logs over the listing
RECURSIVE DeleteScan(_, _, _, _, _, _)
DeleteScan(ents, t, days, order, i, acc) ==
    IF i > Len(order) THEN [acc EXCEPT !.ents = ents]
    ELSE LET f == order[i]
         IN  IF isfile(ents, f) /\ DeleteOld(t, ents[f].mtime, days)
             THEN LET size == ents[f].size
                      rm == Remove(ents, f)
                  IN  IF ~rm.raised
                      THEN DeleteScan(rm.ents, t, days, order, i + 1,
                              [acc EXCEPT
                                 !.deleted_files = Append(@, [tag |-> "name", file |-> f]),
                                 !.total_space = @ + size])
                      ELSE DeleteScan(rm.ents, t, days, order, i + 1,
                              [acc EXCEPT
                                 !.deleted_files = Append(@,
                                     [tag |-> "error", file |-> f,
                                      error |-> "PermissionError"])])
             ELSE DeleteScan(ents, t, days, order, i + 1, acc)

\* delete_logs: the response and the directory after the call
delete_logs(folder, days, confirm, order) ==
    IF NotConfirmed(confirm)
    THEN [resp |-> [kind |-> "message", folder |-> folder, days |-> days],
          ents |-> entries]
    ELSE IF ~exists(folder)
    THEN [resp |-> [kind |-> "error", error |-> "Folder not found"], ents |-> entries]
    ELSE IF kind[folder] # "dir"
    THEN [resp |-> [kind |-> "raised", exc |-> "NotADirectoryError"], ents |-> entries]
    ELSE LET s == DeleteScan(entries, now, days, order, 1,
                     [deleted_files |-> <<>>, total_space |-> 0, ents |-> entries])
         IN  [resp |-> [kind |-> "deleted",
                        deleted_files |-> s.deleted_files,
                        space_freed_mb |-> Round2(s.total_space),
                        folder |-> folder, days |-> days],
              ents |-> s.ents]

-----------------------------------------------------------------------------
(* summarize_log                                                           *)

MaxLines == 2       \* a log file holds at most MaxLines lines

\* the loop body with `if` in place of `elif`
Classify_noelif(summary, line) ==
    LET s1 == [summary EXCEPT !.total_lines = @ + 1]
        s2 == IF SearchIgnoreCase(kw_error, line) THEN [s1 EXCEPT !.errors = @ + 1] ELSE s1
        s3 == IF SearchIgnoreCase(kw_warn, line) THEN [s2 EXCEPT !.warnings = @ + 1] ELSE s2
    IN  IF SearchIgnoreCase(kw_info, line) THEN [s3 EXCEPT !.info = @ + 1] ELSE s3

\* one step of the loop of summarize_log
Classify(summary, line) ==
    LET s1 == [summary EXCEPT !.total_lines = @ + 1]
    IN  IF SearchIgnoreCase(kw_error, line) THEN [s1 EXCEPT !.errors = @ + 1]
        ELSE IF SearchIgnoreCase(kw_warn, line) THEN [s1 EXCEPT !.warnings = @ + 1]
        ELSE IF SearchIgnoreCase(kw_info, line) THEN [s1 EXCEPT !.info = @ + 1]
        ELSE s1

RECURSIVE SummarizeLoop(_, _, _)
SummarizeLoop(lines, i, summary) ==
    IF i > Len(lines) THEN summary
    ELSE SummarizeLoop(lines, i + 1, Classify(summary, lines[i]))

summarize_log(file_path) ==
    IF ~exists(file_path) THEN [kind |-> "error", error |-> "File not found"]
    ELSE IF kind[file_path] # "file"
    THEN [kind |-> "error", error |-> "IsADirectoryError"]
    ELSE [kind |-> "summary",
          summary |-> SummarizeLoop(FileLines(content), 1,
                        [errors |-> 0, warnings |-> 0, info |-> 0, total_lines |-> 0])]

-----------------------------------------------------------------------------
(* The handlers called one at a time on a filesystem                       *)

NoCall == [op |-> "none"]

NoProcs == <<>>
NoRoutes == [a \in {1, 2} |-> {}]
NoEnv == [TENANT_ID |-> "unset", CLIENT_ID |-> "unset", CLIENT_SECRET |-> "unset"]
NoSent == [issuer |-> 0, directory |-> 0]
NoHost == [system |-> "none"]

\* the variables of the other parts of the program, at rest
RestOfLoad  == pc = 0 /\ app = 0 /\ routes = NoRoutes
RestOfUsers == env = NoEnv /\ upc = "idle" /\ sent = NoSent /\ token = "unset"
RestOfHost  == host = NoHost
RestOfProcs == procs = NoProcs

\* the sample log file of the filesystem specification
SampleLog == <<"E","r","r","o","r","\n","o","k","\n">>

FsStates ==
    /\ kind \in {k \in [Paths -> {"missing", "dir", "file"}] :
                    k["logs"] # "file" /\ k["app.log"] # "dir"}
    /\ entries \in {e \in [Names -> {Absent, SubDir} \cup Files] :
                    /\ \A n \in Names : e[n] \in EntryChoices(n)
                    /\ kind["logs"] = "missing" => \A n \in Names : e[n] = Absent}
    /\ now \in Clock

InitLogs ==
    /\ FsStates
    /\ content = SampleLog
    /\ resp = NoCall
    /\ RestOfLoad /\ RestOfUsers /\ RestOfHost /\ RestOfProcs

CallPreview ==
    /\ \E folder \in Paths, days \in 0..MaxDays, order \in Orders(entries) :
          resp' = [op |-> "preview_logs", folder |-> folder, days |-> days,
                   pre |-> entries, t |-> now,
                   out |-> preview_logs(folder, days, order)]
    /\ UNCHANGED <<fsVars, loadVars, usersVars, host, procs>>

CallDelete ==
    /\ \E folder \in Paths, days \in 0..MaxDays, confirm \in Confirms,
          order \in Orders(entries) :
          LET r == delete_logs(folder, days, confirm, order)
          IN  /\ resp' = [op |-> "delete_logs", folder |-> folder, days |-> days,
                          confirm |-> confirm, pre |-> entries, t |-> now,
                          out |-> r.resp]
              /\ entries' = r.ents
    /\ UNCHANGED <<kind, now, content, loadVars, usersVars, host, procs>>

CallSummarize ==
    /\ \E file_path \in Paths :
          resp' = [op |-> "summarize_log", file_path |-> file_path,
                   pre |-> entries, t |-> now,
                   out |-> summarize_log(file_path)]
    /\ UNCHANGED <<fsVars, loadVars, usersVars, host, procs>>

\* time passes between calls
Tick ==
    /\ \E t \in Clock : t > now /\ now' = t
    /\ UNCHANGED <<kind, entries, content, resp, loadVars, usersVars, host, procs>>

NextLogs == CallPreview \/ CallDelete \/ CallSummarize \/ Tick

SpecLogs == InitLogs /\ [][NextLogs]_vars

(* ---- the claims about the log handlers, under SpecLogs ---- *)

FileNames(seq) == {seq[i].file : i \in DOMAIN seq}

\* the regular files of a directory that are older than days, at time t
OlderThan(ents, t, days) ==
    {f \in Names : ents[f].type = "file" /\ t - ents[f].mtime > days * SecondsPerDay}

RECURSIVE SumSizes(_, _)
SumSizes(ents, fs) ==
    IF fs = {} THEN 0
    ELSE LET f == CHOOSE x \in fs : TRUE
         IN  ents[f].size + SumSizes(ents, fs \ {f})

Deleted == resp.op = "delete_logs" /\ resp.out.kind = "deleted"
Previewed == resp.op = "preview_logs" /\ resp.out.kind = "preview"

\* C1: delete_logs removes no file unless confirm is exactly "yes": for every
\* other confirm value ("YES" and "Yes" included) the files of the folder are
\* the same after the call as before it.
C1_DeleteOnlyOnExactYes ==
    (resp.op = "delete_logs" /\ resp.confirm # kw_yes) => entries = resp.pre

\* C2: on one filesystem state, clock value, folder and days, preview_logs and
\* a confirmed delete_logs select the same files: exactly the regular files
\* of the folder whose age is strictly greater than days * 86400 seconds, and
\* the names delete_logs reports are the names preview_logs lists.
C2_PreviewDeleteSameSelection ==
    /\ Previewed =>
          FileNames(resp.out.files_to_delete) = OlderThan(resp.pre, resp.t, resp.days)
    /\ Deleted =>
          /\ FileNames(resp.out.deleted_files) = OlderThan(resp.pre, resp.t, resp.days)
          /\ \A order \in Orders(resp.pre) :
                FileNames(PreviewScan(resp.pre, resp.t, resp.days, order, 1,
                             [files_to_delete |-> <<>>, total_space |-> 0]).files_to_delete)
                  = FileNames(resp.out.deleted_files)

\* a confirmed delete that selected one file and left a younger file alone
C2_Witness ==
    /\ Deleted
    /\ resp.out.deleted_files # <<>>
    /\ \E f \in Names :
          resp.pre[f].type = "file" /\ f \notin FileNames(resp.out.deleted_files)

\* C6 as stated: a call of preview_logs or delete_logs (any confirm value) on
\* a folder that does not exist, or of summarize_log on a file that does not
\* exist, returns an error object, raises nothing and changes nothing.
C6_MissingInputsAnyConfirm ==
    ((resp.op \in {"preview_logs", "delete_logs"} /\ kind[resp.folder] = "missing")
      \/ (resp.op = "summarize_log" /\ kind[resp.file_path] = "missing"))
        => (resp.out.kind = "error" /\ entries = resp.pre)

\* C6 as amended: preview_logs, and delete_logs with a confirm value that
\* lower-cases to "yes", on a folder that does not exist, and summarize_log on
\* a file that does not exist, return an error object; delete_logs with any
\* other confirm value returns the no-op message instead; none of these calls
\* raises or changes the filesystem.
C6_MissingInputs ==
    /\ (resp.op = "preview_logs" /\ kind[resp.folder] = "missing")
          => (resp.out.kind = "error" /\ entries = resp.pre)
    /\ (resp.op = "delete_logs" /\ kind[resp.folder] = "missing")
          => /\ entries = resp.pre
             /\ Lower(resp.confirm) = kw_yes => resp.out.kind = "error"
             /\ Lower(resp.confirm) # kw_yes => resp.out.kind = "message"
    /\ (resp.op = "summarize_log" /\ kind[resp.file_path] = "missing")
          => (resp.out.kind = "error" /\ entries = resp.pre)

\* a confirmed delete on a folder that does not exist, answered by the error
C6_Witness ==
    /\ resp.op = "delete_logs"
    /\ kind[resp.folder] = "missing"
    /\ resp.confirm = <<"Y","E","S">>
    /\ resp.out.kind = "error"

\* C7: in a confirmed delete every selected file appears exactly once in
\* deleted_files, as its name when the removal succeeded (the file is gone) or
\* as an error record when it raised (the file is still there), files after a
\* failing one included; space_freed_mb sums the sizes of the removed files only.
C7_PartialFailureContinues ==
    Deleted =>
        LET df == resp.out.deleted_files
            old == OlderThan(resp.pre, resp.t, resp.days)
            gone == {df[i].file : i \in {j \in DOMAIN df : df[j].tag = "name"}}
        IN  /\ \A f \in old : Cardinality({i \in DOMAIN df : df[i].file = f}) = 1
            /\ \A i \in DOMAIN df :
                  /\ df[i].file \in old
                  /\ df[i].tag = "name" => entries[df[i].file] = Absent
                  /\ df[i].tag = "error" => entries[df[i].file] = resp.pre[df[i].file]
            /\ \A f \in Names \ old : entries[f] = resp.pre[f]
            /\ resp.out.space_freed_mb = Round2(SumSizes(resp.pre, gone))

\* a confirmed delete whose first removal raised and whose second succeeded
C7_Witness ==
    /\ Deleted
    /\ Len(resp.out.deleted_files) = 2
    /\ resp.out.deleted_files[1].tag = "error"
    /\ resp.out.deleted_files[2].tag = "name"
    /\ resp.out.space_freed_mb > 0

-----------------------------------------------------------------------------
(* summarize_log on log files of every content                             *)

SampleLines ==
    { <<"E","r","r","o","r">>,
      <<"W","A","R","N"," ","i","n","f","o">>,
      <<"I","n","f","o">>,
      <<"w","a","r","n"," ","E","R","R","O","R">>,
      <<"o","k">>,
      <<"e","r","r","o"," ","r">>,
      <<>> }

RECURSIVE JoinLines(_, _)
JoinLines(ls, trailing) ==
    IF ls = <<>> THEN <<>>
    ELSE IF Len(ls) = 1 THEN (IF trailing THEN ls[1] \o <<"\n">> ELSE ls[1])
    ELSE ls[1] \o <<"\n">> \o JoinLines(Tail(ls), trailing)

Contents ==
    {JoinLines(ls, trailing) :
        ls \in UNION {[1..n -> SampleLines] : n \in 0..MaxLines}, trailing \in BOOLEAN}

InitSummarize ==
    /\ kind = [p \in Paths |-> IF p = "app.log" THEN "file" ELSE "missing"]
    /\ entries = [n \in Names |-> Absent]
    /\ now = SecondsPerDay
    /\ content \in Contents
    /\ resp = NoCall
    /\ RestOfLoad /\ RestOfUsers /\ RestOfHost /\ RestOfProcs

NextSummarize == CallSummarize

SpecSummarize == InitSummarize /\ [][NextSummarize]_vars

\* the input's lines, by where each starts: after the start of the text and
\* after each line break, up to the next line break or the end of the text
LineStarts == {s \in 1..Len(content) : s = 1 \/ content[s - 1] = "\n"}
LineEnd(s) ==
    LET nls == {i \in s..Len(content) : content[i] = "\n"}
    IN  IF nls = {} THEN Len(content) ELSE CHOOSE i \in nls : \A j \in nls : i <= j
LineOf(s) == SubSeq(content, s, LineEnd(s))
Mentions(s, word) == Contains(Lower(LineOf(s)), word)

Summarized ==
    resp.op = "summarize_log" /\ resp.file_path = "app.log" /\ resp.out.kind = "summary"

\* C5: summarize_log counts each line in at most one of errors, warnings and
\* info, in that priority (a line with "error" is an error only; else one with
\* "warn" is a warning only; else one with "info" is info only), matching case
\* insensitively; total_lines is the number of lines of the input; hence
\* errors + warnings + info <= total_lines.
C5_SummarizeClassifies ==
    Summarized =>
        LET sm == resp.out.summary
        IN  /\ sm.total_lines = Cardinality(LineStarts)
            /\ sm.errors = Cardinality({s \in LineStarts : Mentions(s, kw_error)})
            /\ sm.warnings = Cardinality({s \in LineStarts :
                                ~Mentions(s, kw_error) /\ Mentions(s, kw_warn)})
            /\ sm.info = Cardinality({s \in LineStarts :
                                /\ ~Mentions(s, kw_error) /\ ~Mentions(s, kw_warn)
                                /\ Mentions(s, kw_info)})
            /\ sm.errors + sm.warnings + sm.info <= sm.total_lines

\* a summary of two lines, one of them holding both "warn" and "ERROR"
C5_Witness ==
    /\ Summarized
    /\ resp.out.summary.total_lines = 2
    /\ resp.out.summary.errors = 1
    /\ \E s \in LineStarts : Mentions(s, kw_error) /\ Mentions(s, kw_warn)

-----------------------------------------------------------------------------
(* The module's loading and the application it serves                      *)

\* the top-level statements of main.py that bind app or register a route, in
\* program order.  uvicorn imports the module under the name "main" (also when
\* main.py is run as a script: uvicorn.run("main:app") imports it afresh), so
\* the guard of line 236 is false in the load that is served and the load
\* runs to the end of the file.
Program ==
    << [stmt |-> "new", id |-> 1],
       [stmt |-> "route", method |-> "GET", path |-> "/users",
        handler |-> "api_list_users"],
       [stmt |-> "route", method |-> "GET", path |-> "/health",
        handler |-> "health_check"],
       [stmt |-> "route", method |-> "GET", path |-> "/logs/preview-delete",
        handler |-> "preview_logs"],
       [stmt |-> "route", method |-> "DELETE", path |-> "/logs/delete-confirmed",
        handler |-> "delete_logs"],
       [stmt |-> "route", method |-> "POST", path |-> "/logs/summarize",
        handler |-> "summarize_log"],
       [stmt |-> "route", method |-> "GET", path |-> "/events",
        handler |-> "get_events"],
       [stmt |-> "route", method |-> "GET", path |-> "/.well-known/ai-plugin.json",
        handler |-> "ai_plugin_manifest"],
       [stmt |-> "new", id |-> 2],
       [stmt |-> "route", method |-> "GET", path |-> "/health", handler |-> "health"],
       [stmt |-> "route", method |-> "GET", path |-> "/", handler |-> "root"] >>

Loaded == pc = Len(Program) + 1

\* psutil's readings, in percent
Readings == {0, 50, 79, 80, 81, 100}
DiskReadings == {40, 90}

Percent(x) == <<x, "%">>

\* health_check, the handler of lines 62-74
health_check(cpu, memory, disk) ==
    [status |-> IF cpu < 80 /\ memory < 80 THEN "OK" ELSE "WARNING",
     cpu |-> Percent(cpu), memory |-> Percent(memory), disk |-> Percent(disk)]

\* health, the handler of lines 245-255
health(cpu, memory, disk) ==
    [status |-> "OK",
     cpu |-> Percent(cpu), memory |-> Percent(memory), disk |-> Percent(disk)]

\* root, the handler of lines 257-259
root == [message |-> "Hello from Copilot FastAPI Demo!"]

Methods == {"GET", "POST", "DELETE"}
UrlPaths == {Program[i].path : i \in {j \in DOMAIN Program : Program[j].stmt = "route"}}

InitApp ==
    /\ pc = 1 /\ app = 0 /\ routes = NoRoutes
    /\ kind = [p \in Paths |-> "missing"]
    /\ entries = [n \in Names |-> Absent]
    /\ now = SecondsPerDay
    /\ content = <<>>
    /\ resp = NoCall
    /\ RestOfUsers /\ RestOfHost /\ RestOfProcs

\* one top-level statement: app = FastAPI(...), or a decorator @app.<method>(path)
LoadStep ==
    /\ pc \in DOMAIN Program
    /\ LET st == Program[pc]
       IN  IF st.stmt = "new"
           THEN app' = st.id /\ UNCHANGED routes
           ELSE /\ routes' = [routes EXCEPT ![app] =
                       @ \cup {[method |-> st.method, path |-> st.path,
                                handler |-> st.handler]}]
                /\ UNCHANGED app
    /\ pc' = pc + 1
    /\ UNCHANGED <<fsVars, resp, usersVars, host, procs>>

\* the routing of the served application: the handler of the route that
\* matches, else 405 when only the path matches, else 404
Dispatch(method, path) ==
    LET table == routes[app]
    IN  IF \E r \in table : r.method = method /\ r.path = path
        THEN [status |-> 200,
              handler |-> (CHOOSE r \in table : r.method = method /\ r.path = path).handler]
        ELSE IF \E r \in table : r.path = path
        THEN [status |-> 405, handler |-> "none"]
        ELSE [status |-> 404, handler |-> "none"]

\* one request to the served application.  The handlers that read psutil are
\* called here; the others are specified on their own, each in its section.
Serve ==
    /\ Loaded
    /\ \E method \in Methods, path \in UrlPaths,
          cpu \in Readings, memory \in Readings, disk \in DiskReadings :
          LET d == Dispatch(method, path)
              call == [op |-> "request", method |-> method, path |-> path,
                       status |-> d.status, handler |-> d.handler]
          IN  resp' =
                CASE d.handler = "health_check" ->
                       [call EXCEPT !.op = "health"] @@
                       [cpu |-> cpu, memory |-> memory,
                        out |-> health_check(cpu, memory, disk)]
                  [] d.handler = "health" ->
                       [call EXCEPT !.op = "health"] @@
                       [cpu |-> cpu, memory |-> memory,
                        out |-> health(cpu, memory, disk)]
                  [] d.handler = "root" -> call @@ [out |-> root]
                  [] OTHER -> call
    /\ UNCHANGED <<fsVars, loadVars, usersVars, host, procs>>

\* a direct call of the function health_check of the loaded module
CallHealthCheck ==
    /\ Loaded
    /\ \E cpu \in Readings, memory \in Readings, disk \in DiskReadings :
          resp' = [op |-> "call", handler |-> "health_check",
                   cpu |-> cpu, memory |-> memory,
                   out |-> health_check(cpu, memory, disk)]
    /\ UNCHANGED <<fsVars, loadVars, usersVars, host, procs>>

NextApp == LoadStep \/ Serve \/ CallHealthCheck

SpecApp == InitApp /\ [][NextApp]_vars

\* the routes of the spec's external interfaces
InterfaceRoutes ==
    { <<"GET", "/users">>, <<"GET", "/health">>, <<"GET", "/logs/preview-delete">>,
      <<"DELETE", "/logs/delete-confirmed">>, <<"POST", "/logs/summarize">>,
      <<"GET", "/events">>, <<"GET", "/.well-known/ai-plugin.json">> }

\* C3: once the module is loaded, the object bound to app has a handler for
\* every route of the spec's external interfaces.
C3_AllRoutesServed ==
    Loaded =>
        \A r \in InterfaceRoutes :
            \E x \in routes[app] : x.method = r[1] /\ x.path = r[2]

\* C4: the GET /health response served by the application has status
\* "WARNING" whenever CPU or memory exceeds 80, and "OK" otherwise (both
\* readings at exactly 80 included).
C4_HealthStatus ==
    (resp.op = "health" /\ resp.method = "GET" /\ resp.path = "/health")
        => resp.out.status =
              (IF resp.cpu > 80 \/ resp.memory > 80 THEN "WARNING" ELSE "OK")

-----------------------------------------------------------------------------
(* GET /users: get_access_token and list_users_graph                       *)

MaxUsers == 3       \* the directory answers with at most MaxUsers users

\* os.getenv: None ("unset"), the empty string, or a value
EnvValues == {"unset", "", "value"}
Truthy(v) == v \notin {"unset", ""}

\* AUTHORITY, line 17
AUTHORITY == IF Truthy(env.TENANT_ID) THEN "https://login.microsoftonline.com/tenant"
             ELSE "unset"

\* the guard of get_access_token, line 25
MissingCredentials ==
    ~Truthy(env.CLIENT_ID) \/ ~Truthy(env.CLIENT_SECRET) \/ ~Truthy(AUTHORITY)

\* what the token issuer may do with acquire_token_for_client
IssuerOutcomes == {"access_token", "no_access_token", "raises"}

\* the user objects of the directory's answer
DirectoryUsers ==
    { [displayName |-> "Ann", userPrincipalName |-> "ann@example.com"],
      [displayName |-> "Bob", userPrincipalName |-> "unset"] }

\* what the directory API may do with the GET
DirectoryOutcomes ==
    {[status_code |-> 200, body |-> "json", value |-> v] :
        v \in UNION {[1..n -> DirectoryUsers] : n \in 0..MaxUsers}}
    \cup {[status_code |-> 200, body |-> "not json", value |-> <<>>]}
    \cup {[status_code |-> c, body |-> "text", value |-> <<>>] : c \in {401, 403, 500}}
    \cup {[status_code |-> 0, body |-> "raises", value |-> <<>>]}

InitUsers ==
    /\ env \in [TENANT_ID : EnvValues, CLIENT_ID : EnvValues, CLIENT_SECRET : EnvValues]
    /\ upc = "get_access_token"
    /\ sent = NoSent
    /\ token = "unset"
    /\ resp = [op |-> "list_users_graph"]
    /\ kind = [p \in Paths |-> "missing"]
    /\ entries = [n \in Names |-> Absent]
    /\ now = SecondsPerDay
    /\ content = <<>>
    /\ RestOfLoad /\ RestOfHost /\ RestOfProcs

\* get_access_token, lines 24-31: nothing in it catches what msal raises
GetAccessToken ==
    /\ upc = "get_access_token"
    /\ IF MissingCredentials
       THEN /\ token' = "unset"
            /\ upc' = "check_token"
            /\ UNCHANGED <<sent, resp>>
       ELSE /\ sent' = [sent EXCEPT !.issuer = @ + 1]
            /\ \E o \in IssuerOutcomes :
                  CASE o = "access_token" ->
                         token' = "bearer" /\ upc' = "check_token" /\ UNCHANGED resp
                    [] o = "no_access_token" ->
                         token' = "unset" /\ upc' = "check_token" /\ UNCHANGED resp
                    [] OTHER ->
                         /\ token' = "unset"
                         /\ upc' = "done"
                         /\ resp' = [op |-> "list_users_graph",
                                     out |-> [kind |-> "raised", exc |-> "msal"]]
    /\ UNCHANGED <<fsVars, loadVars, env, host, procs>>

\* list_users_graph, lines 35-37
CheckToken ==
    /\ upc = "check_token"
    /\ IF ~Truthy(token)
       THEN /\ resp' = [op |-> "list_users_graph",
                        out |-> [kind |-> "error", error |-> "Failed to acquire token"]]
            /\ upc' = "done"
       ELSE upc' = "requests_get" /\ UNCHANGED resp
    /\ UNCHANGED <<fsVars, loadVars, env, sent, token, host, procs>>

\* the list comprehension of lines 43-46
NameEmail(value) ==
    [i \in 1..Len(value) |->
        [name |-> value[i].displayName, email |-> value[i].userPrincipalName]]

\* list_users_graph, lines 39-49: nothing in it catches what requests raises
RequestsGet ==
    /\ upc = "requests_get"
    /\ sent' = [sent EXCEPT !.directory = @ + 1]
    /\ upc' = "done"
    /\ \E o \in DirectoryOutcomes :
          resp' = [op |-> "list_users_graph",
                   out |->
                     CASE o.body = "raises" ->
                            [kind |-> "raised", exc |-> "requests"]
                       [] o.status_code = 200 /\ o.body = "not json" ->
                            [kind |-> "raised", exc |-> "JSONDecodeError"]
                       [] o.status_code = 200 ->
                            [kind |-> "users", users |-> NameEmail(o.value),
                             status_code |-> o.status_code]
                       [] OTHER ->
                            [kind |-> "error", error |-> o.body,
                             status_code |-> o.status_code]]
    /\ UNCHANGED <<fsVars, loadVars, env, token, host, procs>>

NextUsers == GetAccessToken \/ CheckToken \/ RequestsGet

SpecUsers == InitUsers /\ [][NextUsers]_vars

\* C8: GET /users never ends in an unhandled exception: whatever the token
\* issuer and the directory API do, list_users_graph returns the users (on a
\* 200 only) or an object with an "error" key; with TENANT_ID, CLIENT_ID or
\* CLIENT_SECRET unset nothing is sent to either party; no request is retried.
C8_UsersNeverRaises ==
    /\ upc = "done" =>
          /\ resp.out.kind \in {"users", "error"}
          /\ resp.out.kind = "users" => resp.out.status_code = 200
    /\ (\E v \in DOMAIN env : env[v] = "unset") => sent = NoSent
    /\ sent.issuer <= 1 /\ sent.directory <= 1

-----------------------------------------------------------------------------
(* GET /events: get_events                                                 *)

EventCap == 50          \* events_read[:50]
SyslogTail == 200       \* f.readlines()[-200:]
MaxPattern == 2         \* a host's log repeats a pattern of at most MaxPattern entries
MaxExtra == 3           \* a host's log is at most MaxExtra entries longer than the window

Sources == {"windows", "linux"}
Levels == {"all", "error", "warning"}

\* EVENTLOG_ERROR_TYPE, EVENTLOG_WARNING_TYPE, EVENTLOG_INFORMATION_TYPE
EventTypes == {1, 2, 4}

Digits == <<"0","1","2","3","4","5","6","7","8","9">>

SyslogTexts ==
    { <<"E","R","R","O","R"," ","d","i","s","k">>,
      <<" ","W","a","r","n","i","n","g",":"," ","e","r","r","o","r","\t">>,
      <<"c","r","o","n"," ","w","a","r","n","s">>,
      <<"s","t","a","r","t","e","d">> }

LogLengths(window) ==
    {0, 1, window - 1, window, window + 1, window + MaxExtra}

Patterns(S) == UNION {[1..n -> S] : n \in 1..MaxPattern}

\* the Application log as ReadEventLog returns it: n records, newest first
EventLog(pattern, n) ==
    [i \in 1..n |-> [SourceName |-> "app", EventID |-> i,
                     EventType |-> pattern[((i - 1) % Len(pattern)) + 1]]]

\* the syslog as readlines() returns it: n lines, each ending in "\n"
SyslogLines(pattern, n) ==
    [i \in 1..n |-> <<Digits[(i % 10) + 1]>> \o
                    pattern[((i - 1) % Len(pattern)) + 1] \o <<"\n">>]

Hosts ==
    {[system |-> "Windows", pywin32 |-> w, events_read |-> EventLog(p, n)] :
        w \in {"installed"}, p \in Patterns(EventTypes), n \in LogLengths(EventCap)}
    \cup {[system |-> "Windows", pywin32 |-> w, events_read |-> <<>>] :
        w \in {"not installed", "fails"}}
    \cup {[system |-> "Linux", syslog_path |-> f, lines |-> SyslogLines(p, n)] :
        f \in {"/var/log/syslog", "/var/log/messages"},
        p \in Patterns(SyslogTexts), n \in LogLengths(SyslogTail)}
    \cup {[system |-> "Linux", syslog_path |-> "none", lines |-> <<>>]}
    \cup {[system |-> "Darwin"]}

\* events_read[:50]
FirstEvents(records) ==
    SubSeq(records, 1, IF Len(records) < EventCap THEN Len(records) ELSE EventCap)

LastLines_fromstart(lines) ==
    SubSeq(lines, 1, IF Len(lines) < SyslogTail THEN Len(lines) ELSE SyslogTail)

\* f.readlines()[-200:]
LastLines(lines) ==
    SubSeq(lines, IF Len(lines) < SyslogTail THEN 1 ELSE Len(lines) - SyslogTail + 1,
           Len(lines))

\* the two `continue` tests of the Windows loop, lines 181-184
KeepEvent(level, ev) ==
    /\ ~(level = "error" /\ ev.EventType # 1)
    /\ ~(level = "warning" /\ ev.EventType # 2)

\* the two `continue` tests of the Linux loop, lines 197-200
KeepLine(level, line) ==
    /\ ~(level = "error" /\ ~Contains(Lower(line), kw_error))
    /\ ~(level = "warning" /\ ~Contains(Lower(line), kw_warn))

get_events(source, level) ==
    IF source = "windows" /\ host.system = "Windows"
    THEN IF host.pywin32 = "not installed"
         THEN [kind |-> "error", error |-> "win32evtlog not installed"]
         ELSE IF host.pywin32 = "fails"
         THEN [kind |-> "error", error |-> "str(e)"]
         ELSE LET Keep(ev) == KeepEvent(level, ev)
                  kept == SelectSeq(FirstEvents(host.events_read), Keep)
              IN  [kind |-> "events",
                   events |-> [i \in 1..Len(kept) |->
                                 [source |-> kept[i].SourceName,
                                  event_id |-> kept[i].EventID,
                                  event_type |-> kept[i].EventType]]]
    ELSE IF source = "linux" /\ host.system = "Linux"
    THEN IF host.syslog_path = "none"
         THEN [kind |-> "error", error |-> "str(e)"]
         ELSE LET Keep(line) == KeepLine(level, line)
                  kept == SelectSeq(LastLines(host.lines), Keep)
              IN  [kind |-> "events",
                   events |-> [i \in 1..Len(kept) |-> Strip(kept[i])]]
    ELSE [kind |-> "error", error |-> "logs not available"]

InitEvents ==
    /\ host \in Hosts
    /\ resp = NoCall
    /\ kind = [p \in Paths |-> "missing"]
    /\ entries = [n \in Names |-> Absent]
    /\ now = SecondsPerDay
    /\ content = <<>>
    /\ RestOfLoad /\ RestOfUsers /\ RestOfProcs

CallGetEvents ==
    /\ \E source \in Sources, level \in Levels :
          resp' = [op |-> "get_events", source |-> source, level |-> level,
                   out |-> get_events(source, level)]
    /\ UNCHANGED <<fsVars, loadVars, usersVars, host, procs>>

NextEvents == CallGetEvents

SpecEvents == InitEvents /\ [][NextEvents]_vars

\* the scanned window of the host's log, as the claim describes it
WindowOf(h) ==
    IF h.system = "Windows"
    THEN [i \in 1..(IF Len(h.events_read) < 50 THEN Len(h.events_read) ELSE 50) |->
            [source |-> h.events_read[i].SourceName,
             event_id |-> h.events_read[i].EventID,
             event_type |-> h.events_read[i].EventType]]
    ELSE LET n == Len(h.lines)
             k == IF n < 200 THEN n ELSE 200
         IN  [i \in 1..k |-> Strip(h.lines[n - k + i])]

IsErrorEntry(h, e) ==
    IF h.system = "Windows" THEN e.event_type = 1 ELSE Contains(Lower(e), kw_error)
IsWarningEntry(h, e) ==
    IF h.system = "Windows" THEN e.event_type = 2 ELSE Contains(Lower(e), kw_warn)

SourceMatchesHost(source, h) ==
    \/ source = "windows" /\ h.system = "Windows"
    \/ source = "linux" /\ h.system = "Linux"

-----------------------------------------------------------------------------
(* Concurrent requests on one folder: preview_logs and delete_logs, one    *)
(* system call at a time (FastAPI runs a def handler in its thread pool)   *)

Requests == {"r1", "r2"}

RaceEntries ==
    {e \in [Names -> {Absent, SubDir} \cup Files] :
        \A n \in Names : e[n] \in EntryChoices(n) /\ e[n].mtime = 0}

NewRequest(op, days) ==
    [op |-> op, folder |-> "logs", days |-> days, confirm |-> kw_yes,
     pc |-> "start", t |-> 0, listing |-> <<>>, i |-> 1, size |-> 0,
     files |-> <<>>, total_space |-> 0, out |-> [kind |-> "pending"]]

InitRace ==
    /\ kind = [p \in Paths |-> IF p = "logs" THEN "dir" ELSE "missing"]
    /\ entries \in RaceEntries
    /\ now = SecondsPerDay + 1
    /\ content = <<>>
    /\ resp = NoCall
    /\ procs \in [Requests -> {NewRequest(op, days) :
                      op \in {"preview_logs", "delete_logs"}, days \in 0..MaxDays}]
    /\ RestOfLoad /\ RestOfUsers /\ RestOfHost

Unchanged_but_procs == UNCHANGED <<kind, now, content, resp, loadVars, usersVars, host>>

\* the request's result, once its loop is over
Result(r) ==
    IF r.op = "preview_logs"
    THEN [kind |-> "preview", files_to_delete |-> r.files,
          total_space_to_free_mb |-> Round2(r.total_space)]
    ELSE [kind |-> "deleted", deleted_files |-> r.files,
          space_freed_mb |-> Round2(r.total_space)]

\* to the next name of the listing, or to the return statement after the last
NextName(r) ==
    IF r.i + 1 > Len(r.listing)
    THEN [r EXCEPT !.i = @ + 1, !.pc = "done", !.out = Result([r EXCEPT !.i = @ + 1])]
    ELSE [r EXCEPT !.i = @ + 1, !.pc = "isfile"]

\* an exception no try block of the handler encloses
Raise(r, exc) == [r EXCEPT !.pc = "raised", !.out = [kind |-> "raised", exc |-> exc]]

\* lines 80-86 and 110-123: the guards, time.time() and os.listdir
Start(p) ==
    /\ procs[p].pc = "start"
    /\ LET r == procs[p]
       IN  IF r.op = "delete_logs" /\ NotConfirmed(r.confirm)
           THEN procs' = [procs EXCEPT ![p] =
                    [r EXCEPT !.pc = "done", !.out = [kind |-> "message"]]]
           ELSE IF ~exists(r.folder)
           THEN procs' = [procs EXCEPT ![p] =
                    [r EXCEPT !.pc = "done", !.out = [kind |-> "error"]]]
           ELSE \E order \in Orders(entries) :
                   procs' = [procs EXCEPT ![p] =
                       IF order = <<>>
                       THEN [r EXCEPT !.t = now, !.pc = "done", !.out = Result(r)]
                       ELSE [r EXCEPT !.t = now, !.listing = order, !.pc = "isfile"]]
    /\ UNCHANGED entries
    /\ Unchanged_but_procs

\* os.path.isfile(path), lines 88 and 125
IsFile(p) ==
    /\ procs[p].pc = "isfile"
    /\ LET r == procs[p]
       IN  procs' = [procs EXCEPT ![p] =
               IF isfile(entries, r.listing[r.i]) THEN [r EXCEPT !.pc = "getmtime"]
               ELSE NextName(r)]
    /\ UNCHANGED entries
    /\ Unchanged_but_procs

\* os.path.getmtime(path) and the age test, lines 89-90 and 126-127
GetMTime(p) ==
    /\ procs[p].pc = "getmtime"
    /\ LET r == procs[p]
           f == r.listing[r.i]
           old == IF r.op = "preview_logs"
                  THEN PreviewOld(r.t, entries[f].mtime, r.days)
                  ELSE DeleteOld(r.t, entries[f].mtime, r.days)
       IN  procs' = [procs EXCEPT ![p] =
               IF entries[f].type = "absent" THEN Raise(r, "FileNotFoundError")
               ELSE IF old THEN [r EXCEPT !.pc = "getsize"]
               ELSE NextName(r)]
    /\ UNCHANGED entries
    /\ Unchanged_but_procs

\* os.path.getsize(path), lines 91-93 and 128
GetSize(p) ==
    /\ procs[p].pc = "getsize"
    /\ LET r == procs[p]
           f == r.listing[r.i]
       IN  procs' = [procs EXCEPT ![p] =
               IF entries[f].type = "absent" THEN Raise(r, "FileNotFoundError")
               ELSE IF r.op = "preview_logs"
               THEN NextName([r EXCEPT
                       !.files = Append(@, [file |-> f, size_bytes |-> entries[f].size]),
                       !.total_space = @ + entries[f].size])
               ELSE [r EXCEPT !.size = entries[f].size, !.pc = "remove"]]
    /\ UNCHANGED entries
    /\ Unchanged_but_procs

\* the try block of lines 129-135: os.remove(path), and the except clause
TryRemove(p) ==
    /\ procs[p].pc = "remove"
    /\ LET r == procs[p]
           f == r.listing[r.i]
       IN  IF entries[f].type = "absent"
           THEN /\ procs' = [procs EXCEPT ![p] = NextName([r EXCEPT
                       !.files = Append(@, [tag |-> "error", file |-> f,
                                            error |-> "FileNotFoundError"])])]
                /\ UNCHANGED entries
           ELSE LET rm == Remove(entries, f)
                IN  /\ entries' = rm.ents
                    /\ procs' = [procs EXCEPT ![p] = NextName(
                          IF rm.raised
                          THEN [r EXCEPT !.files = Append(@,
                                   [tag |-> "error", file |-> f,
                                    error |-> "PermissionError"])]
                          ELSE [r EXCEPT !.files = Append(@, [tag |-> "name", file |-> f]),
                                         !.total_space = @ + r.size])]
    /\ Unchanged_but_procs

NextRace ==
    \E p \in Requests :
        Start(p) \/ IsFile(p) \/ GetMTime(p) \/ GetSize(p) \/ TryRemove(p)

SpecRace == InitRace /\ [][NextRace]_vars

\* the names a request reports as deleted
DeletedBy(p) ==
    IF procs[p].op # "delete_logs" THEN {}
    ELSE {procs[p].files[i].file :
             i \in {j \in DOMAIN procs[p].files : procs[p].files[j].tag = "name"}}

\* C10: under every interleaving of concurrent preview_logs and confirmed
\* delete_logs requests on one folder, no request ends in an unhandled
\* exception (a file another request removed in between is skipped or recorded
\* as a per-file error), and no file is reported deleted by two requests.
C10_ConcurrentRequestsComplete ==
    /\ \A p \in Requests : procs[p].pc # "raised"
    /\ \A p, q \in Requests : p # q => DeletedBy(p) \cap DeletedBy(q) = {}

====
